---- MODULE Spec2Model ----
(***************************************************************************)
(* flist: single-instance coordination over the lock record flist.lock.    *)
(*                                                                         *)
(* Every invocation of the program on one project root is a process p.     *)
(* Shared state is what lives outside a process: the lock file, the        *)
(* persisted entries (entries.json), the wall clock, the bound listener    *)
(* sockets and the connections made to them.  One action is one call that  *)
(* touches that shared state, in the order main() and get_config() make    *)
(* them; purely local code between two such calls is part of the action    *)
(* that precedes it.                                                       *)
(*                                                                         *)
(* An entry added by invocation p is identified by p; the port the OS      *)
(* hands to invocation p is identified by p as well.  The project is       *)
(* initialised (flist.toml exists), so reading the configuration succeeds. *)
(***************************************************************************)
EXTENDS Integers, Sequences, FiniteSets, TLC

\* ------------------------------------------------------------------ bounds
NumProcs == 2
MaxNow == 70

\* the instants (seconds) at which the clock is looked at: a lock written at
\* 0 or 10 is 10, 51, 60, 61 or 70 seconds old at a later one
Instants == {t \in {0, 10, 61, 70, 71} : t <= MaxNow}

Procs == 1..NumProcs

\* --------------------------------------------------------------- constants
SECS_OF_GRACE_FOR_NONLISTENING_LOCK == 60

LOCALHOST == "127.0.0.1"

VARIABLES
    now,          \* Utc::now(), in seconds
    lockFile,     \* flist.lock: [exists |-> BOOLEAN, json |-> a JSON object]
    diskEntries,  \* entries.json: the persisted active entries
    pc,           \* where each invocation is in main()
    command,      \* the subcommand of each invocation: "View" or "Add"
    result,       \* what get_config returned: "None", "Ok", "WithListener", "WithoutListener"
    lockRead,     \* the Lock value the invocation decoded from the lock file
    refusedTime,  \* the time_locked carried by Err(LockedProject::WithoutListener)
    err,          \* the panic message of an invocation that panicked
    lockfile,     \* whether the invocation holds a LockFile value (dropped on exit)
    entries,      \* Project::entries of each invocation
    listening,    \* the ports that are bound by a live process
    stream,       \* the connection each invocation holds: [to, data, closed]
    handled,      \* connections whose handler thread has finished
    pending       \* App::pending_messages of each invocation

vars == <<now, lockFile, diskEntries, pc, command, result, lockRead,
          refusedTime, err, lockfile, entries, listening, stream, handled,
          pending>>

\* ------------------------------------------------------------- lock record

\* the Lock enum of config.rs, and "no value"
NoLock == [kind |-> "None"]
WithListener(hostname, listener_port) ==
    [kind |-> "WithListener", hostname |-> hostname, listener_port |-> listener_port]
WithoutListener(time_locked) ==
    [kind |-> "WithoutListener", time_locked |-> time_locked]

without_listener(t) == WithoutListener(t)
with_listener(hostname, listener_port) == WithListener(hostname, listener_port)

\* serde_json::to_string(&lock): the enum is untagged, the variant's fields
\* are the JSON object's fields
Serialize(lock) ==
    IF lock.kind = "WithListener"
    THEN [hostname |-> lock.hostname, listener_port |-> lock.listener_port]
    ELSE [time_locked |-> lock.time_locked]

\* variant of Deserialize: time_locked defaulted when absent, so that any
\* JSON object decodes
DeserializeLenient(json) ==
    IF {"hostname", "listener_port"} \subseteq DOMAIN json
    THEN WithListener(json.hostname, json.listener_port)
    ELSE IF "time_locked" \in DOMAIN json
         THEN WithoutListener(json.time_locked)
         ELSE WithoutListener(0)

\* serde_json::from_str::<Lock>: the first variant whose fields are all
\* present; NoLock stands for the Err of a text that is neither
Deserialize(json) ==
    IF {"hostname", "listener_port"} \subseteq DOMAIN json
    THEN WithListener(json.hostname, json.listener_port)
    ELSE IF "time_locked" \in DOMAIN json
         THEN WithoutListener(json.time_locked)
         ELSE NoLock

\* a JSON object that is no lock record
GarbageJson == [other |-> 0]

NoFile == [exists |-> FALSE, json |-> GarbageJson]
File(json) == [exists |-> TRUE, json |-> json]

\* ------------------------------------------------------------ connections
NoStream == [to |-> 0, data |-> <<>>, closed |-> FALSE]


\* ------------------------------------------------- pure parts of the code

\* (time_locked - Utc::now()).num_seconds().try_into().unwrap_or_default():
\* the difference as u64, and 0 when the conversion fails (a negative i64)
GraceDiff(time_locked, t) ==
    LET diff == time_locked - t
    IN  IF diff < 0 THEN 0 ELSE diff

\* variant of LockDecision: the grace comparison inverted
LockDecisionInverted(lock, t) ==
    IF lock.kind = "WithListener"
    THEN "connect"
    ELSE IF GraceDiff(lock.time_locked, t) >= SECS_OF_GRACE_FOR_NONLISTENING_LOCK
         THEN "refuse"
         ELSE "remove_lock"

\* the match on the decoded lock in get_config: what the reader does next
LockDecision(lock, t) ==
    IF lock.kind = "WithListener"
    THEN "connect"
    ELSE IF GraceDiff(lock.time_locked, t) < SECS_OF_GRACE_FOR_NONLISTENING_LOCK
         THEN "refuse"
         ELSE "remove_lock"

\* variant of ConnectDecision: the lock is deleted whatever the connection
ConnectDecisionReclaim(ok) == "remove_lock"

\* variant of ConnectDecision: a failed connection is fatal (connect(..).expect)
ConnectDecisionFatal(ok) == IF ok THEN "on_locked" ELSE "panicked"

\* if let Ok(stream) = stream { return Err(WithListener(stream)) }, else fall
\* through to the deletion
ConnectDecision(ok) == IF ok THEN "on_locked" ELSE "remove_lock"

\* TcpStream::connect_timeout: refused when nothing listens on the port; a
\* listening port answers, or the attempt times out
ConnectOutcomes(port) == IF port \in listening THEN {TRUE, FALSE} ELSE {FALSE}

\* LockFile::new writes Lock::without_listener()
NewLockJson(t) == Serialize(without_listener(t))

\* variant of SetListenerJson: the address asked for, port 0, is published
\* instead of the address that was bound
SetListenerJsonRequested(hostname, listener_port) ==
    Serialize(with_listener(hostname, 0))

\* LockFile::set_listener writes Lock::with_listener(hostname, port)
SetListenerJson(hostname, listener_port) ==
    Serialize(with_listener(hostname, listener_port))

\* variant of DropLockFile: nothing is removed
DropLockFileKeep(file, held) == file

\* Drop for LockFile: remove_file(path), its result ignored
DropLockFile(file, held) == IF held THEN NoFile ELSE file

\* InsertRequest::from(args) of invocation p
InsertRequest(p) == [name |-> p]

\* variant of OnLockedData: the View and Add arms swapped
OnLockedDataSwapped(cmd, p) == IF cmd = "View" THEN <<InsertRequest(p)>> ELSE <<>>

\* Command::on_locked: what the invocation writes on the connection
OnLockedData(cmd, p) == IF cmd = "Add" THEN <<InsertRequest(p)>> ELSE <<>>

\* Project::insert_entry
insert_entry(es, entry) == <<entry>> \o es

\* Command::apply: the entries after the one-shot command
ApplyCommand(cmd, es, p) ==
    IF cmd = "Add" THEN insert_entry(es, InsertRequest(p).name) ELSE es

\* the loop of App::apply_messages: each message inserted in queue order
RECURSIVE ApplyAll(_, _)
ApplyAll(es, messages) ==
    IF messages = <<>> THEN es
    ELSE ApplyAll(insert_entry(es, Head(messages).name), Tail(messages))

\* handle_stream: the payload read to EOF is pushed when it decodes as one
\* request, and dropped when it is empty or does not decode
HandleStreamPush(data) == IF Len(data) = 1 THEN <<data[1]>> ELSE <<>>

\* ---------------------------------------------------------------- helpers
Live(p) == pc[p] \notin {"idle", "done", "panicked", "killed"}

\* the invocation passed acquisition with Ok and still holds its LockFile
Owner(p) == Live(p) /\ result[p] = "Ok" /\ lockfile[p]

CloseStream(s) == IF s.to = 0 THEN s ELSE [s EXCEPT !.closed = TRUE]

\* ------------------------------------------- interactive loop: the state
\* One owner that reached gui::main: App and the loop of run_app.  Indices
\* are those of the source, counted from 0.

\* bounds of the projects and inputs that are explored
MaxEntries == 3     \* entries of the project, active, archived and queued
MaxArchive == 2     \* the largest max_archive of flist.toml

\* usize is 64 bits wide; the width is scaled down to the integers at hand,
\* every list being far shorter than 2^UsizeBits
UsizeBits == 16
USIZE_MAX == 2^UsizeBits - 1

VARIABLES
    project,           \* App::project: [entries, archive, max_archive]
    select_state,      \* App::select_state
    pending_messages,  \* App::pending_messages, the queue of decoded requests
    saved,             \* entries.json and archive.json: [entries, archive]
    loop_pc,           \* run_app: "apply_messages", "poll", "exit", "panicked";
                       \* "off" outside it
    connections        \* the connections made to the listener, in the order
                       \* their senders wrote and closed them: [payload, at,
                       \* order]

guivars == <<project, select_state, pending_messages, saved, loop_pc,
             connections>>

\* the SelectState enum
EntryState(idx) == [kind |-> "Entry", idx |-> idx]
ArchiveState(idx) == [kind |-> "Archive", idx |-> idx]
DragState(dragged_entry_idx, new_position) ==
    [kind |-> "Drag", dragged_entry_idx |-> dragged_entry_idx,
     new_position |-> new_position]

\* crossterm's Event, as far as on_event tells events apart
KeyEvent(code, modifiers, kind) ==
    [code |-> code, modifiers |-> modifiers, kind |-> kind]
Press(code) == KeyEvent(code, "NONE", "Press")

\* the Entry struct; the link of the entry named n is n
Entry(n, t) == [name |-> n, link |-> n, time_added |-> t, metadata |-> <<>>]

\* From<InsertRequest> for Entry: time_added is Utc::now()
EntryFrom(request, t) == Entry(request.name, t)

\* Vec::len, Vec::remove(i), Vec::insert(i, e) on indices counted from 0; a
\* remove or insert out of range panics, which on_event reports before it
\* uses them
VecRemove(v, i) == SubSeq(v, 1, i) \o SubSeq(v, i + 2, Len(v))
VecInsert(v, i, e) == SubSeq(v, 1, i) \o <<e>> \o SubSeq(v, i + 1, Len(v))
VecPop(v) == SubSeq(v, 1, Len(v) - 1)

\* a - b on usize where overflow is not checked
WrappingSub(a, b) == (a - b) % (USIZE_MAX + 1)

\* the state while no interactive loop is looked at
GuiOff ==
    /\ project = [entries |-> <<>>, archive |-> <<>>, max_archive |-> 0]
    /\ select_state = EntryState(0)
    /\ pending_messages = <<>>
    /\ saved = [entries |-> <<>>, archive |-> <<>>]
    /\ loop_pc = "off"
    /\ connections = <<>>

\* ------------------------------------------------------------------- Init
Init ==
    /\ now = 0
    /\ lockFile \in {NoFile, File(GarbageJson)}
    /\ diskEntries = <<>>
    /\ pc = [p \in Procs |-> "idle"]
    /\ command = [p \in Procs |-> "View"]
    /\ result = [p \in Procs |-> "None"]
    /\ lockRead = [p \in Procs |-> NoLock]
    /\ refusedTime = [p \in Procs |-> 0]
    /\ err = [p \in Procs |-> ""]
    /\ lockfile = [p \in Procs |-> FALSE]
    /\ entries = [p \in Procs |-> <<>>]
    /\ listening = {}
    /\ stream = [p \in Procs |-> NoStream]
    /\ handled = {}
    /\ pending = [p \in Procs |-> <<>>]
    /\ GuiOff

\* ---------------------------------------------------------------- actions

\* MainArgs::parse: the invocation starts with its subcommand
Start(p) ==
    /\ pc[p] = "idle"
    /\ \E c \in {"View", "Add"} : command' = [command EXCEPT ![p] = c]
    /\ pc' = [pc EXCEPT ![p] = "get_config"]
    /\ UNCHANGED <<now, lockFile, diskEntries, result, lockRead, refusedTime,
                   err, lockfile, entries, listening, stream, handled, pending>>
    /\ UNCHANGED guivars

\* get_config: lock_path.exists(); without a lock file the configuration is
\* read and Ok returned
LockPathExists(p) ==
    /\ pc[p] = "get_config"
    /\ IF lockFile.exists
       THEN /\ pc' = [pc EXCEPT ![p] = "read_lock"]
            /\ UNCHANGED result
       ELSE /\ pc' = [pc EXCEPT ![p] = "LockFile_new"]
            /\ result' = [result EXCEPT ![p] = "Ok"]
    /\ UNCHANGED <<now, lockFile, diskEntries, command, lockRead,
                   refusedTime, err, lockfile, entries, listening, stream,
                   handled, pending>>
    /\ UNCHANGED guivars

\* get_config: read_to_string, from_str and the match on the lock; an
\* Err(WithoutListener) makes main panic
ReadLock(p) ==
    /\ pc[p] = "read_lock"
    /\ IF ~lockFile.exists
       THEN /\ pc' = [pc EXCEPT ![p] = "panicked"]
            /\ err' = [err EXCEPT ![p] = "Failed to read lock file"]
            /\ UNCHANGED <<result, lockRead, refusedTime>>
       ELSE LET lock == Deserialize(lockFile.json) IN
            IF lock = NoLock
            THEN /\ pc' = [pc EXCEPT ![p] = "panicked"]
                 /\ err' = [err EXCEPT ![p] = "failed to read lock file"]
                 /\ UNCHANGED <<result, lockRead, refusedTime>>
            ELSE LET next == LockDecision(lock, now) IN
                 IF next = "refuse"
                 THEN /\ result' = [result EXCEPT ![p] = "WithoutListener"]
                      /\ refusedTime' = [refusedTime EXCEPT ![p] = lock.time_locked]
                      /\ pc' = [pc EXCEPT ![p] = "panicked"]
                      /\ err' = [err EXCEPT ![p] = "Project is locked"]
                      /\ UNCHANGED lockRead
                 ELSE /\ lockRead' = [lockRead EXCEPT ![p] = lock]
                      /\ pc' = [pc EXCEPT ![p] = next]
                      /\ UNCHANGED <<result, refusedTime, err>>
    /\ UNCHANGED <<now, lockFile, diskEntries, command, lockfile,
                   entries, listening, stream, handled, pending>>
    /\ UNCHANGED guivars

\* get_config: TcpStream::connect_timeout to the listener of the lock
Connect(p) ==
    /\ pc[p] = "connect"
    /\ \E ok \in ConnectOutcomes(lockRead[p].listener_port) :
          LET next == ConnectDecision(ok) IN
          /\ pc' = [pc EXCEPT ![p] = next]
          /\ result' = [result EXCEPT ![p] =
                IF next = "on_locked" THEN "WithListener" ELSE @]
          \* an Ok(stream) that is not returned is dropped, which closes it
          /\ stream' = [stream EXCEPT ![p] =
                IF ok
                THEN [to |-> lockRead[p].listener_port, data |-> <<>>,
                      closed |-> next # "on_locked"]
                ELSE @]
    /\ UNCHANGED <<now, lockFile, diskEntries, command, lockRead,
                   refusedTime, err, lockfile, entries, listening, handled,
                   pending>>
    /\ UNCHANGED guivars

\* get_config: fs::remove_file(lock_path).expect(..), then the configuration
\* is read and Ok returned
RemoveLock(p) ==
    /\ pc[p] = "remove_lock"
    /\ IF lockFile.exists
       THEN /\ lockFile' = NoFile
            /\ pc' = [pc EXCEPT ![p] = "LockFile_new"]
            /\ result' = [result EXCEPT ![p] = "Ok"]
            /\ UNCHANGED <<err, lockRead>>
       ELSE /\ pc' = [pc EXCEPT ![p] = "panicked"]
            /\ err' = [err EXCEPT ![p] = "Failed to delete lock file"]
            /\ lockRead' = [lockRead EXCEPT ![p] = NoLock]
            /\ UNCHANGED <<lockFile, result>>
    /\ UNCHANGED <<now, diskEntries, command, refusedTime,
                   lockfile, entries, listening, stream, handled, pending>>
    /\ UNCHANGED guivars


\* main: LockFile::new(&args.project_root)
LockFile_new(p) ==
    /\ pc[p] = "LockFile_new"
    /\ lockFile' = File(NewLockJson(now))
    /\ lockfile' = [lockfile EXCEPT ![p] = TRUE]
    /\ pc' = [pc EXCEPT ![p] = "from_dir"]
    /\ UNCHANGED <<now, diskEntries, command, result, lockRead,
                   refusedTime, err, entries, listening, stream, handled,
                   pending>>
    /\ UNCHANGED guivars

\* main: Project::from_dir
from_dir(p) ==
    /\ pc[p] = "from_dir"
    /\ entries' = [entries EXCEPT ![p] = diskEntries]
    /\ pc' = [pc EXCEPT ![p] = "apply"]
    /\ UNCHANGED <<now, lockFile, diskEntries, command, result, lockRead,
                   refusedTime, err, lockfile, listening, stream, handled,
                   pending>>
    /\ UNCHANGED guivars

\* main: args.apply(&mut project); an add inserts and saves; with --exit main
\* returns and the LockFile is dropped.  The --exit flag of the invocation is
\* read here and nowhere else: exit is drawn where it is read.
apply(p) ==
    /\ pc[p] = "apply"
    /\ \E exit \in BOOLEAN :
       LET applied == ApplyCommand(command[p], entries[p], p) IN
       /\ diskEntries' = IF command[p] = "Add" THEN applied ELSE diskEntries
       /\ IF exit
          THEN /\ lockFile' = DropLockFile(lockFile, lockfile[p])
               /\ lockfile' = [lockfile EXCEPT ![p] = FALSE]
               /\ entries' = [entries EXCEPT ![p] = <<>>]
               /\ lockRead' = [lockRead EXCEPT ![p] = NoLock]
               /\ pc' = [pc EXCEPT ![p] = "done"]
          ELSE /\ entries' = [entries EXCEPT ![p] = applied]
               /\ pc' = [pc EXCEPT ![p] = "bind"]
               /\ UNCHANGED <<lockFile, lockfile, lockRead>>
    /\ UNCHANGED <<now, command, result, refusedTime, err,
                   listening, stream, handled, pending>>
    /\ UNCHANGED guivars

\* main: TcpListener::bind(("127.0.0.1", 0))
bind(p) ==
    /\ pc[p] = "bind"
    /\ listening' = listening \cup {p}
    /\ pc' = [pc EXCEPT ![p] = "set_listener"]
    /\ UNCHANGED <<now, lockFile, diskEntries, command, result, lockRead,
                   refusedTime, err, lockfile, entries, stream, handled,
                   pending>>
    /\ UNCHANGED guivars

\* main: lockfile.set_listener(addr.ip().to_string(), addr.port()), then
\* gui::main starts the listener thread and the loop
set_listener(p) ==
    /\ pc[p] = "set_listener"
    /\ lockFile' = File(SetListenerJson(LOCALHOST, p))
    /\ pc' = [pc EXCEPT ![p] = "gui"]
    /\ UNCHANGED <<now, diskEntries, command, result, lockRead,
                   refusedTime, err, lockfile, entries, listening, stream,
                   handled, pending>>
    /\ UNCHANGED guivars

\* main: args.on_locked(stream); the stream is closed when main returns
on_locked(p) ==
    /\ pc[p] = "on_locked"
    /\ stream' = [stream EXCEPT ![p] =
          [@ EXCEPT !.data = @ \o OnLockedData(command[p], p), !.closed = TRUE]]
    /\ lockRead' = [lockRead EXCEPT ![p] = NoLock]
    /\ pc' = [pc EXCEPT ![p] = "done"]
    /\ UNCHANGED <<now, lockFile, diskEntries, command, result,
                   refusedTime, err, lockfile, entries, listening, handled,
                   pending>>
    /\ UNCHANGED guivars

\* handle_stream on the connection of sender q, in its own thread of owner o
handle_stream(o, q) ==
    /\ pc[o] = "gui"
    /\ stream[q].to = o
    /\ stream[q].closed
    /\ q \notin handled
    /\ handled' = handled \cup {q}
    /\ pending' = [pending EXCEPT ![o] = @ \o HandleStreamPush(stream[q].data)]
    /\ UNCHANGED <<now, lockFile, diskEntries, pc, command, result,
                   lockRead, refusedTime, err, lockfile, entries, listening,
                   stream>>
    /\ UNCHANGED guivars

\* App::apply_messages of a tick that finds messages queued
apply_messages(o) ==
    /\ pc[o] = "gui"
    /\ pending[o] # <<>>
    /\ entries' = [entries EXCEPT ![o] = ApplyAll(entries[o], pending[o])]
    /\ diskEntries' = entries'[o]
    /\ pending' = [pending EXCEPT ![o] = <<>>]
    /\ UNCHANGED <<now, lockFile, pc, command, result, lockRead,
                   refusedTime, err, lockfile, listening, stream, handled>>
    /\ UNCHANGED guivars

\* run_app: the quit key ends the loop; App and its LockFile are dropped
Quit(o) ==
    /\ pc[o] = "gui"
    /\ lockFile' = DropLockFile(lockFile, lockfile[o])
    /\ lockfile' = [lockfile EXCEPT ![o] = FALSE]
    /\ listening' = listening \ {o}
    /\ pc' = [pc EXCEPT ![o] = "done"]
    /\ entries' = [entries EXCEPT ![o] = <<>>]
    /\ lockRead' = [lockRead EXCEPT ![o] = NoLock]
    /\ pending' = [pending EXCEPT ![o] = <<>>]
    /\ UNCHANGED <<now, diskEntries, command, result,
                   refusedTime, err, stream, handled>>
    /\ UNCHANGED guivars

\* a panic of an invocation that holds its LockFile (an expect on a failed
\* read, write, bind or terminal call): the unwind drops the LockFile
Panic(p) ==
    /\ pc[p] \in {"from_dir", "apply", "bind", "set_listener", "gui"}
    /\ lockFile' = DropLockFile(lockFile, lockfile[p])
    /\ lockfile' = [lockfile EXCEPT ![p] = FALSE]
    /\ listening' = listening \ {p}
    /\ pc' = [pc EXCEPT ![p] = "panicked"]
    /\ err' = [err EXCEPT ![p] = "Failed"]
    /\ entries' = [entries EXCEPT ![p] = <<>>]
    /\ lockRead' = [lockRead EXCEPT ![p] = NoLock]
    /\ pending' = [pending EXCEPT ![p] = <<>>]
    /\ UNCHANGED <<now, diskEntries, command, result,
                   refusedTime, stream, handled>>
    /\ UNCHANGED guivars

\* the process is killed (or the machine stops): nothing is dropped, the
\* OS closes its sockets.  Before it holds a LockFile or a stream a killed
\* invocation leaves nothing behind, like one that never takes its next step.
Kill(p) ==
    /\ pc[p] \in {"from_dir", "apply", "bind", "set_listener", "gui", "on_locked"}
    /\ listening' = listening \ {p}
    /\ stream' = [stream EXCEPT ![p] = CloseStream(@)]
    /\ pc' = [pc EXCEPT ![p] = "killed"]
    /\ entries' = [entries EXCEPT ![p] = <<>>]
    /\ lockRead' = [lockRead EXCEPT ![p] = NoLock]
    /\ pending' = [pending EXCEPT ![p] = <<>>]
    /\ UNCHANGED <<now, lockFile, diskEntries, command, result,
                   refusedTime, err, lockfile, handled>>
    /\ UNCHANGED guivars

\* time passes
Tick ==
    /\ \E t \in Instants :
          /\ t > now
          /\ now' = t
    /\ UNCHANGED <<lockFile, diskEntries, pc, command, result, lockRead,
                   refusedTime, err, lockfile, entries, listening, stream,
                   handled, pending>>
    /\ UNCHANGED guivars

Next ==
    \/ \E p \in Procs : Start(p)
    \/ \E p \in Procs : LockPathExists(p)
    \/ \E p \in Procs : ReadLock(p)
    \/ \E p \in Procs : Connect(p)
    \/ \E p \in Procs : RemoveLock(p)
    \/ \E p \in Procs : LockFile_new(p)
    \/ \E p \in Procs : from_dir(p)
    \/ \E p \in Procs : apply(p)
    \/ \E p \in Procs : bind(p)
    \/ \E p \in Procs : set_listener(p)
    \/ \E p \in Procs : on_locked(p)
    \/ \E o \in Procs, q \in Procs : handle_stream(o, q)
    \/ \E o \in Procs : apply_messages(o)
    \/ \E o \in Procs : Quit(o)
    \/ \E p \in Procs : Panic(p)
    \/ \E p \in Procs : Kill(p)
    \/ Tick

Spec == Init /\ [][Next]_<<vars, guivars>>

\* =============================================== the interactive loop (gui)

\* ------------------------------------------------------------- the Project
\* variant of archive_entry: the archived entry goes to the tail
archive_entry_tail(proj, entry_idx) ==
    LET inserted == proj.archive \o <<proj.entries[entry_idx + 1]>>
    IN  [proj EXCEPT !.entries = VecRemove(@, entry_idx),
                     !.archive = IF Len(inserted) > proj.max_archive
                                 THEN VecPop(inserted) ELSE inserted]

\* Project::archive_entry: the entry moves to the head of the archive, and
\* one entry is popped from the tail when the archive is longer than
\* max_archive
archive_entry(proj, entry_idx) ==
    LET inserted == VecInsert(proj.archive, 0, proj.entries[entry_idx + 1])
    IN  [proj EXCEPT !.entries = VecRemove(@, entry_idx),
                     !.archive = IF Len(inserted) > proj.max_archive
                                 THEN VecPop(inserted) ELSE inserted]

\* Project::remove_from_archive
remove_from_archive(proj, entry_idx) ==
    [proj EXCEPT !.archive = VecRemove(@, entry_idx)]

\* variant of restore_from_archive: the archive keeps the entry
restore_keeps_copy(proj, entry_idx) ==
    [proj EXCEPT !.entries = VecInsert(@, 0, proj.archive[entry_idx + 1])]

\* variant of restore_from_archive: the entry goes to the tail of entries
restore_at_tail(proj, entry_idx) ==
    [proj EXCEPT !.archive = VecRemove(@, entry_idx),
                 !.entries = @ \o <<proj.archive[entry_idx + 1]>>]

\* Project::restore_from_archive
restore_from_archive(proj, entry_idx) ==
    [proj EXCEPT !.archive = VecRemove(@, entry_idx),
                 !.entries = VecInsert(@, 0, proj.archive[entry_idx + 1])]

\* variant of move_entry: the two entries trade places
move_entry_swap(proj, from, to) ==
    [proj EXCEPT !.entries = [@ EXCEPT ![from + 1] = proj.entries[to + 1],
                                       ![to + 1] = proj.entries[from + 1]]]

\* Project::move_entry
move_entry(proj, from, to) ==
    IF from = to THEN proj
    ELSE [proj EXCEPT !.entries =
              VecInsert(VecRemove(@, from), to, proj.entries[from + 1])]

\* Project::insert_entry_at: the entry is inserted at the index
insert_entry_at(proj, entry, idx) ==
    [proj EXCEPT !.entries = VecInsert(@, idx, entry)]

\* Project::save: entries.json and archive.json as written
save(proj) == [entries |-> proj.entries, archive |-> proj.archive]

\* the loop of App::apply_messages over Entry values: each request becomes
\* an Entry stamped with the time t and is inserted at the head
RECURSIVE ApplyMessages(_, _, _)
ApplyMessages(proj, messages, t) ==
    IF messages = <<>> THEN proj
    ELSE ApplyMessages(
             [proj EXCEPT !.entries = insert_entry(@, EntryFrom(Head(messages), t))],
             Tail(messages), t)

\* ------------------------------------------------------------ the OnEvent
OnEvent_exit == [next_state |-> [tag |-> "Exit"], save |-> FALSE]
OnEvent_without_saving(state) ==
    [next_state |-> [tag |-> "State", state |-> state], save |-> FALSE]
\* variant of with_saving: the save is not asked for
OnEvent_with_saving_dropped(state) ==
    [next_state |-> [tag |-> "State", state |-> state], save |-> FALSE]
OnEvent_with_saving(state) ==
    [next_state |-> [tag |-> "State", state |-> state], save |-> TRUE]
OnEvent_ignore == [next_state |-> [tag |-> "None"], save |-> FALSE]

\* what a call of on_event leaves: the OnEvent it returns and the project
\* as it mutated it, or a panic.  overflow marks an outcome computed by an
\* arithmetic overflow that wrapped: the build with overflow checks panics
\* there instead, the build without them returns the outcome.
Returns(on_ev, proj) ==
    [panic |-> FALSE, overflow |-> FALSE, on_event |-> on_ev, project |-> proj]
Panics(proj) ==
    [panic |-> TRUE, overflow |-> FALSE, on_event |-> OnEvent_ignore,
     project |-> proj]

\* len - 1 on usize, and the outcome of the arm that computes it
LenMinusOne(v) == WrappingSub(Len(v), 1)
LenMinusOneChecked(v, outcome) ==
    IF Len(v) = 0 THEN [outcome EXCEPT !.overflow = TRUE] ELSE outcome

\* whether the call panics, for each build
PanicOutcomes(outcome) ==
    IF outcome.panic THEN {TRUE}
    ELSE IF outcome.overflow THEN {TRUE, FALSE}
    ELSE {FALSE}

\* the clipboard as get_contents finds it
NoClipboard == [provider |-> FALSE, ok |-> FALSE, contents |-> 0]
ClipboardErr == [provider |-> TRUE, ok |-> FALSE, contents |-> 0]
ClipboardOk(contents) == [provider |-> TRUE, ok |-> TRUE, contents |-> contents]

\* ---------------------------------------------------- SelectState::on_event
\* the guards of the match arms
EntryUpGuard(selected_idx, proj) ==
    proj.entries # <<>> /\ selected_idx > 0

\* variant of EntryDownGuard: Down is taken on every non-empty list
EntryDownGuardUnbounded(selected_idx, proj) ==
    proj.entries # <<>>

EntryDownGuard(selected_idx, proj) ==
    proj.entries # <<>> /\ selected_idx < Len(proj.entries) - 1

\* variant of DragDownGuard: the last position is not a boundary
DragDownGuardUnbounded(new_position, proj) ==
    new_position < Len(proj.entries)

DragDownGuard(new_position, proj) ==
    new_position < LenMinusOne(proj.entries)

\* variant of DragEsc: the focus lands on the previewed position
DragEscToNewPosition(dragged_entry_idx, new_position) ==
    OnEvent_without_saving(EntryState(new_position))

\* the Esc arm of Drag
DragEsc(dragged_entry_idx, new_position) ==
    OnEvent_without_saving(EntryState(dragged_entry_idx))

\* variant of EntryDeleteNewIdx: the focus stays where it was
EntryDeleteNewIdxKept(selected_idx, archived) == selected_idx

\* the Delete arm of Entry: the focus after archive_entry
EntryDeleteNewIdx(selected_idx, archived) ==
    IF archived.entries # <<>> /\ selected_idx = Len(archived.entries)
    THEN selected_idx - 1 ELSE selected_idx

\* variant of EntryArchiveKeyGuard: the archive is entered whatever it holds
EntryArchiveKeyGuardOpen(proj) == TRUE

\* the guards of the 'a' and 'd' arms of Entry
EntryArchiveKeyGuard(proj) == proj.archive # <<>>
EntryDragKeyGuard(proj) == proj.entries # <<>>

\* variant of PasteNewIdx: the paste goes to the head
PasteNewIdxHead(selected_idx, proj) == 0

\* the Ctrl+V arm of Entry: where the new entry goes
PasteNewIdx(selected_idx, proj) ==
    IF proj.entries = <<>> THEN 0 ELSE selected_idx + 1

\* variant of ArchiveDeleteState: the focus stays on the index
ArchiveDeleteStateKept(selected_idx, removed) == ArchiveState(selected_idx)

\* the Delete arm of Archive: the state after remove_from_archive
ArchiveDeleteState(selected_idx, removed) ==
    IF removed.archive = <<>> THEN EntryState(0)
    ELSE IF selected_idx = Len(removed.archive)
    THEN ArchiveState(selected_idx - 1)
    ELSE ArchiveState(selected_idx)

\* variant of IsQuit: no key quits
IsQuitNever(event) == FALSE

\* the quit pattern: the key 'q', whatever the kind and the modifiers
IsQuit(event) == event.code = "q"

\* the Entry arm
on_event_Entry(selected_idx, event, proj, clipboard) ==
    LET pressed(code) == event.kind = "Press" /\ event.code = code
        len == Len(proj.entries)
    IN  CASE pressed("Up") /\ EntryUpGuard(selected_idx, proj) ->
                 Returns(OnEvent_without_saving(EntryState(selected_idx - 1)), proj)
          [] pressed("Down") /\ EntryDownGuard(selected_idx, proj) ->
                 Returns(OnEvent_without_saving(EntryState(selected_idx + 1)), proj)
          [] pressed("Delete") /\ proj.entries # <<>> ->
                 IF selected_idx >= len THEN Panics(proj)
                 ELSE LET archived == archive_entry(proj, selected_idx)
                          new_idx == EntryDeleteNewIdx(selected_idx, archived)
                      IN  Returns(OnEvent_with_saving(EntryState(new_idx)), archived)
          [] pressed("a") /\ EntryArchiveKeyGuard(proj) ->
                 Returns(OnEvent_without_saving(ArchiveState(0)), proj)
          [] pressed("d") /\ EntryDragKeyGuard(proj) ->
                 Returns(OnEvent_without_saving(DragState(selected_idx, selected_idx)),
                         proj)
          [] pressed("Home") ->
                 Returns(OnEvent_without_saving(EntryState(0)), proj)
          [] pressed("End") /\ proj.entries # <<>> ->
                 Returns(OnEvent_without_saving(EntryState(len - 1)), proj)
          [] pressed("Enter") /\ proj.entries # <<>> ->
                 IF selected_idx >= len THEN Panics(proj)
                 ELSE Returns(OnEvent_ignore, proj)
          [] pressed("v") /\ event.modifiers = "CONTROL" ->
                 IF clipboard.provider /\ clipboard.ok
                 THEN LET request == InsertRequest(clipboard.contents)
                          new_idx == PasteNewIdx(selected_idx, proj)
                      IN  IF new_idx > len THEN Panics(proj)
                          ELSE Returns(
                                   OnEvent_with_saving(EntryState(new_idx)),
                                   insert_entry_at(proj, EntryFrom(request, now),
                                                   new_idx))
                 ELSE Returns(OnEvent_ignore, proj)
          [] OTHER -> Returns(OnEvent_ignore, proj)

\* the Archive arm
on_event_Archive(selected_idx, event, proj) ==
    LET pressed(code) == event.kind = "Press" /\ event.code = code
        len == Len(proj.archive)
    IN  CASE pressed("Up") /\ selected_idx > 0 ->
                 Returns(OnEvent_without_saving(ArchiveState(selected_idx - 1)), proj)
          [] pressed("Down") ->
                 LenMinusOneChecked(proj.archive,
                     IF selected_idx < LenMinusOne(proj.archive)
                     THEN Returns(
                              OnEvent_without_saving(ArchiveState(selected_idx + 1)),
                              proj)
                     ELSE Returns(OnEvent_ignore, proj))
          [] pressed("Delete") ->
                 IF selected_idx >= len THEN Panics(proj)
                 ELSE LET removed == remove_from_archive(proj, selected_idx)
                      IN  Returns(
                              OnEvent_with_saving(
                                  ArchiveDeleteState(selected_idx, removed)),
                              removed)
          [] pressed("a") ->
                 Returns(OnEvent_without_saving(EntryState(0)), proj)
          [] pressed("r") ->
                 IF selected_idx >= len THEN Panics(proj)
                 ELSE Returns(OnEvent_with_saving(EntryState(0)),
                              restore_from_archive(proj, selected_idx))
          [] pressed("Home") ->
                 Returns(OnEvent_without_saving(ArchiveState(0)), proj)
          [] pressed("End") ->
                 LenMinusOneChecked(proj.entries,
                     Returns(OnEvent_without_saving(
                                 ArchiveState(LenMinusOne(proj.entries))), proj))
          [] pressed("Enter") /\ proj.entries # <<>> ->
                 IF selected_idx >= len THEN Panics(proj)
                 ELSE Returns(OnEvent_ignore, proj)
          [] OTHER -> Returns(OnEvent_ignore, proj)

\* the Drag arm
on_event_Drag(dragged_entry_idx, new_position, event, proj) ==
    LET pressed(code) == event.kind = "Press" /\ event.code = code
        len == Len(proj.entries)
    IN  CASE pressed("Up") /\ new_position > 0 ->
                 Returns(OnEvent_without_saving(
                             DragState(dragged_entry_idx, new_position - 1)), proj)
          [] pressed("Down") ->
                 LenMinusOneChecked(proj.entries,
                     IF DragDownGuard(new_position, proj)
                     THEN Returns(OnEvent_without_saving(
                                      DragState(dragged_entry_idx, new_position + 1)),
                                  proj)
                     ELSE Returns(OnEvent_ignore, proj))
          [] pressed("Home") ->
                 Returns(OnEvent_without_saving(DragState(dragged_entry_idx, 0)), proj)
          [] pressed("End") ->
                 LenMinusOneChecked(proj.entries,
                     Returns(OnEvent_without_saving(
                                 DragState(dragged_entry_idx,
                                           LenMinusOne(proj.entries))), proj))
          [] pressed("Enter") ->
                 IF dragged_entry_idx # new_position
                    /\ (dragged_entry_idx >= len \/ new_position >= len)
                 THEN Panics(proj)
                 ELSE Returns(OnEvent_with_saving(EntryState(new_position)),
                              move_entry(proj, dragged_entry_idx, new_position))
          [] pressed("Esc") ->
                 Returns(DragEsc(dragged_entry_idx, new_position), proj)
          [] OTHER -> Returns(OnEvent_ignore, proj)

\* SelectState::on_event: 'q' exits from every state, whatever the kind of
\* the key event; every other event goes to the arm of the state
on_event(self, event, proj, clipboard) ==
    IF IsQuit(event) THEN Returns(OnEvent_exit, proj)
    ELSE CASE self.kind = "Entry" ->
                  on_event_Entry(self.idx, event, proj, clipboard)
           [] self.kind = "Archive" ->
                  on_event_Archive(self.idx, event, proj)
           [] self.kind = "Drag" ->
                  on_event_Drag(self.dragged_entry_idx, self.new_position,
                                event, proj)

\* ui: the draw indexes the list the selection points into and panics on
\* an index out of it (Entry(0) on an empty list draws no entry)
ui_panics(state, proj) ==
    CASE state.kind = "Entry" ->
             ~(state.idx = 0 /\ proj.entries = <<>>)
                 /\ state.idx >= Len(proj.entries)
      [] state.kind = "Archive" -> state.idx >= Len(proj.archive)
      [] state.kind = "Drag" ->
             \/ state.dragged_entry_idx >= Len(proj.entries)
             \/ state.new_position >= Len(proj.entries)

\* ------------------------------------------------------- run_app: the loop
\* the key events that are told apart, and the clipboards
KeyCodes == {"Up", "Down", "Home", "End", "Delete", "Enter", "Esc",
             "a", "d", "r", "q", "v", "x"}
Events ==
    {Press(code) : code \in KeyCodes}
        \cup {KeyEvent("v", "CONTROL", "Press"),
              KeyEvent("Enter", "CONTROL", "Press"),
              KeyEvent("Up", "NONE", "Release"),
              KeyEvent("q", "NONE", "Release")}

\* the entries the project holds or is about to hold, and a name none has
NamesOf(v) == {v[i].name : i \in DOMAIN v}
NamesHeld ==
    NamesOf(project.entries) \cup NamesOf(project.archive)
        \cup NamesOf(pending_messages)
HasRoom == Cardinality(NamesHeld) < MaxEntries
FreshName == CHOOSE n \in (1..MaxEntries) \ NamesHeld :
                 \A m \in (1..MaxEntries) \ NamesHeld : n <= m
Clipboards ==
    {NoClipboard, ClipboardErr}
        \cup (IF HasRoom THEN {ClipboardOk(FreshName)} ELSE {})
\* only the paste arm looks at the clipboard
IsPaste(event) == event = KeyEvent("v", "CONTROL", "Press")
ClipboardsFor(event) == IF IsPaste(event) THEN Clipboards ELSE {NoClipboard}

\* the lock side while the loop runs: the owner's lock file stays as
\* set_listener wrote it
LockSideQuiet ==
    UNCHANGED <<now, lockFile, diskEntries, pc, command, result, lockRead,
                refusedTime, err, lockfile, entries, listening, stream,
                handled, pending>>

\* gui::main entered with the project Project::from_dir loaded: the two
\* lists as the files hold them, the archive never cut to max_archive.  The
\* loaded entries were added at the instant Loaded, before the loop started.
Loaded == 0
GuiInit ==
    /\ now = Loaded + 10
    /\ lockFile = File(SetListenerJson(LOCALHOST, 1))
    /\ diskEntries = <<>>
    /\ pc = [p \in Procs |-> "idle"]
    /\ command = [p \in Procs |-> "View"]
    /\ result = [p \in Procs |-> "None"]
    /\ lockRead = [p \in Procs |-> NoLock]
    /\ refusedTime = [p \in Procs |-> 0]
    /\ err = [p \in Procs |-> ""]
    /\ lockfile = [p \in Procs |-> FALSE]
    /\ entries = [p \in Procs |-> <<>>]
    /\ listening = {}
    /\ stream = [p \in Procs |-> NoStream]
    /\ handled = {}
    /\ pending = [p \in Procs |-> <<>>]
    /\ \E k \in 0..MaxEntries, max_archive \in 0..MaxArchive :
         \E m \in 0..(MaxEntries - k) :
           project = [entries |-> [i \in 1..k |-> Entry(i, Loaded)],
                      archive |-> [i \in 1..m |-> Entry(k + i, Loaded)],
                      max_archive |-> max_archive]
    /\ saved = save(project)
    /\ select_state = EntryState(0)
    /\ pending_messages = <<>>
    /\ loop_pc = "apply_messages"
    /\ connections = <<>>

\* handle_stream on the listener thread: a decoded request is pushed
listener_push ==
    /\ loop_pc \in {"apply_messages", "poll"}
    /\ HasRoom
    /\ pending_messages' = Append(pending_messages, InsertRequest(FreshName))
    /\ UNCHANGED <<project, select_state, saved, loop_pc, connections>>
    /\ LockSideQuiet

\* variant of drain: the messages taken stay in the queue
drain_keep(messages) == [taken |-> messages, left |-> messages]

\* variant of drain: nothing is taken
drain_none(messages) == [taken |-> <<>>, left |-> messages]

\* pending_messages.lock().unwrap().drain(..).collect(): every message is
\* taken, in queue order, and the queue is left empty
drain(messages) == [taken |-> messages, left |-> <<>>]

\* run_app, the head of the loop: apply_messages drains the queue and saves
\* when it applied a message, then the frame is drawn
run_app_draw ==
    /\ loop_pc = "apply_messages"
    /\ LET drained == drain(pending_messages)
           applied == ApplyMessages(project, drained.taken, now)
       IN  /\ project' = applied
           /\ saved' = IF drained.taken # <<>> THEN save(applied) ELSE saved
           /\ loop_pc' = IF ui_panics(select_state, applied)
                         THEN "panicked" ELSE "poll"
           /\ pending_messages' = drained.left
    /\ UNCHANGED <<select_state, connections>>
    /\ LockSideQuiet

\* poll ran out: the next round of the loop
run_app_timeout ==
    /\ loop_pc = "poll"
    /\ loop_pc' = "apply_messages"
    /\ UNCHANGED <<project, select_state, pending_messages, saved,
                   connections>>
    /\ LockSideQuiet

\* poll found an event: event::read returns it and it is handled, on_event,
\* the save it asks for, the next state
run_app_event ==
    /\ loop_pc = "poll"
    /\ \E event \in Events : \E clipboard \in ClipboardsFor(event) :
         LET handled_ev == on_event(select_state, event, project, clipboard)
             next_state == handled_ev.on_event.next_state
         IN  \E panicked \in PanicOutcomes(handled_ev) :
             IF panicked
             THEN /\ loop_pc' = "panicked"
                  /\ UNCHANGED <<project, select_state, saved>>
             ELSE /\ project' = handled_ev.project
                  /\ saved' = IF handled_ev.on_event.save
                              THEN save(handled_ev.project) ELSE saved
                  /\ select_state' = IF next_state.tag = "State"
                                     THEN next_state.state ELSE select_state
                  /\ loop_pc' = IF next_state.tag = "Exit"
                                THEN "exit" ELSE "apply_messages"
    /\ UNCHANGED <<pending_messages, connections>>
    /\ LockSideQuiet

GuiNext ==
    \/ listener_push
    \/ run_app_draw
    \/ run_app_timeout
    \/ run_app_event

SpecGui == GuiInit /\ [][GuiNext]_<<vars, guivars>>

\* ------------------------------------------ the listener and its handlers
\* the connections senders make to one listening owner
MaxConnections == 3

\* what a sender wrote before it closed: nothing, bytes that are not UTF-8,
\* text that is not JSON, the JSON text {}, or the JSON of an InsertRequest
EmptyPayload == [kind |-> "Empty", name |-> 0]
NotTextPayload == [kind |-> "NotText", name |-> 0]
NotJsonPayload == [kind |-> "NotJson", name |-> 0]
NotCommandPayload == [kind |-> "NotCommand", name |-> 0]

\* serde_json::to_writer of an InsertRequest, as Command::on_locked sends it
to_writer(request) == [kind |-> "Insert", name |-> request.name]

\* the payloads the sender of connection number i may have written; the
\* request of connection i is named i
Payloads(i) ==
    {EmptyPayload, NotTextPayload, NotJsonPayload, NotCommandPayload,
     to_writer(InsertRequest(i))}

\* variant of read_to_string: bytes that are not text read as text
read_to_string_lossy(payload) == [ok |-> TRUE, buffer |-> payload]

\* Read::read_to_string into the buffer: Err when the bytes are not UTF-8
read_to_string(payload) ==
    [ok |-> payload.kind # "NotText", buffer |-> payload]

\* String::is_empty
is_empty(buffer) == buffer.kind = "Empty"

\* serde_json::from_str::<RemoteRequest>: the untagged enum decodes an object
\* with name, link and metadata, and nothing else
from_str(buffer) ==
    [ok |-> buffer.kind = "Insert", request |-> InsertRequest(buffer.name)]

\* variant of handle_stream: the request is pushed at the head of the queue
HandleStreamAtHead(payload, queue) ==
    LET buffer == read_to_string(payload)
        request == from_str(buffer.buffer)
    IN  IF ~buffer.ok THEN [panic |-> TRUE, pending_messages |-> queue]
        ELSE IF is_empty(buffer.buffer) \/ ~request.ok
             THEN [panic |-> FALSE, pending_messages |-> queue]
             ELSE [panic |-> FALSE,
                   pending_messages |-> <<request.request>> \o queue]

\* handle_stream: the unwrap of read_to_string panics on an Err; an empty
\* buffer and a buffer that does not decode return; a request is pushed at
\* the tail of the queue
HandleStream(payload, queue) ==
    LET buffer == read_to_string(payload)
        request == from_str(buffer.buffer)
    IN  IF ~buffer.ok THEN [panic |-> TRUE, pending_messages |-> queue]
        ELSE IF is_empty(buffer.buffer) \/ ~request.ok
             THEN [panic |-> FALSE, pending_messages |-> queue]
             ELSE [panic |-> FALSE,
                   pending_messages |-> Append(queue, request.request)]

\* how many handlers have pushed
Pushes == Cardinality({i \in DOMAIN connections : connections[i].order > 0})

\* the owner of GuiInit, with an empty project
ListenerInit ==
    /\ now = Loaded + 10
    /\ lockFile = File(SetListenerJson(LOCALHOST, 1))
    /\ diskEntries = <<>>
    /\ pc = [p \in Procs |-> "idle"]
    /\ command = [p \in Procs |-> "View"]
    /\ result = [p \in Procs |-> "None"]
    /\ lockRead = [p \in Procs |-> NoLock]
    /\ refusedTime = [p \in Procs |-> 0]
    /\ err = [p \in Procs |-> ""]
    /\ lockfile = [p \in Procs |-> FALSE]
    /\ entries = [p \in Procs |-> <<>>]
    /\ listening = {}
    /\ stream = [p \in Procs |-> NoStream]
    /\ handled = {}
    /\ pending = [p \in Procs |-> <<>>]
    /\ project = [entries |-> <<>>, archive |-> <<>>,
                  max_archive |-> MaxArchive]
    /\ saved = save(project)
    /\ select_state = EntryState(0)
    /\ pending_messages = <<>>
    /\ loop_pc = "apply_messages"
    /\ connections = <<>>

\* Command::on_locked of one more sender: it connects, writes its payload
\* and closes; a sender starts after the sender before it has closed
client_write ==
    /\ loop_pc \in {"apply_messages", "poll"}
    /\ Len(connections) < MaxConnections
    /\ \E payload \in Payloads(Len(connections) + 1) :
         connections' = Append(connections,
                               [payload |-> payload, at |-> "written",
                                order |-> 0])
    /\ UNCHANGED <<project, select_state, pending_messages, saved, loop_pc>>
    /\ LockSideQuiet

\* the thread start_listener_thread spawned for one connection runs
\* handle_stream: the threads of the written connections run in any order
handler_thread ==
    /\ loop_pc \in {"apply_messages", "poll"}
    /\ \E i \in DOMAIN connections :
         /\ connections[i].at = "written"
         /\ LET outcome == HandleStream(connections[i].payload,
                                        pending_messages)
            IN  /\ pending_messages' = outcome.pending_messages
                /\ connections' =
                     [connections EXCEPT
                        ![i].at = IF outcome.panic THEN "panicked"
                                  ELSE "returned",
                        ![i].order =
                            IF outcome.pending_messages # pending_messages
                            THEN Pushes + 1 ELSE 0]
    /\ UNCHANGED <<project, select_state, saved, loop_pc>>
    /\ LockSideQuiet

ListenerNext ==
    \/ client_write
    \/ handler_thread
    \/ run_app_draw
    \/ run_app_timeout

SpecListener == ListenerInit /\ [][ListenerNext]_<<vars, guivars>>

\* ---------------------------------------------------- the new subcommand
\* MainArgs::parse of an invocation with the subcommand new
StartNew(p) ==
    /\ pc[p] = "idle"
    /\ command' = [command EXCEPT ![p] = "New"]
    /\ pc' = [pc EXCEPT ![p] = "new_config"]
    /\ UNCHANGED <<now, lockFile, diskEntries, result, lockRead, refusedTime,
                   err, lockfile, entries, listening, stream, handled, pending>>
    /\ UNCHANGED guivars

\* where get_config goes after it wrote flist.toml: with --clear to the
\* removal of the files it listed, among them the lock file and entries.json
\* when they existed, else to its return
NewNextStep(clear, lock_listed, entries_listed) ==
    IF ~clear \/ (~lock_listed /\ ~entries_listed) THEN "LockFile_new"
    ELSE IF lock_listed /\ entries_listed THEN "new_clear_lock_entries"
    ELSE IF lock_listed THEN "new_clear_lock"
    ELSE "new_clear_entries"

\* get_config, the New arm, in an existing project directory that holds a
\* flist.toml: without --force it panics; with it the files to delete are
\* listed and flist.toml is written; the lock file is not looked at as a
\* lock.  An entries.json that holds no entry counts as missing.
new_config(p) ==
    /\ pc[p] = "new_config"
    /\ \E force \in BOOLEAN, clear \in BOOLEAN :
         IF ~force
         THEN /\ pc' = [pc EXCEPT ![p] = "panicked"]
              /\ err' = [err EXCEPT ![p] = "Project already exists"]
              /\ UNCHANGED result
         ELSE LET next == NewNextStep(clear, lockFile.exists,
                                      diskEntries # <<>>)
              IN  /\ pc' = [pc EXCEPT ![p] = next]
                  /\ result' = [result EXCEPT ![p] =
                        IF next = "LockFile_new" THEN "Ok" ELSE @]
                  /\ UNCHANGED err
    /\ UNCHANGED <<now, lockFile, diskEntries, command, lockRead,
                   refusedTime, lockfile, entries, listening, stream,
                   handled, pending>>
    /\ UNCHANGED guivars

\* get_config, the New arm with --clear: fs::remove_file(file).expect(..) on
\* each listed file, the lock file first; then Ok is returned
new_clear(p) ==
    /\ pc[p] \in {"new_clear_lock_entries", "new_clear_lock",
                  "new_clear_entries"}
    /\ LET lock_listed == pc[p] # "new_clear_entries"
           entries_listed == pc[p] # "new_clear_lock"
       IN  IF lock_listed /\ ~lockFile.exists
           THEN /\ pc' = [pc EXCEPT ![p] = "panicked"]
                /\ err' = [err EXCEPT ![p] = "Failed to delete file"]
                /\ UNCHANGED <<lockFile, diskEntries, result>>
           ELSE /\ lockFile' = IF lock_listed THEN NoFile ELSE lockFile
                /\ diskEntries' = IF entries_listed THEN <<>> ELSE diskEntries
                /\ pc' = [pc EXCEPT ![p] = "LockFile_new"]
                /\ result' = [result EXCEPT ![p] = "Ok"]
                /\ UNCHANGED err
    /\ UNCHANGED <<now, command, lockRead, refusedTime, lockfile, entries,
                   listening, stream, handled, pending>>
    /\ UNCHANGED guivars

\* the invocation that runs its loop from the start, and the others
FirstOwner == 1
Others == Procs \ {FirstOwner}

\* an entry added by an invocation that returned before these started
Earlier == 0

\* an instance is in its loop behind the record of its listener, with the
\* entries it loaded; the other invocations have not started
NewInit ==
    /\ now = 10
    /\ lockFile = File(SetListenerJson(LOCALHOST, FirstOwner))
    /\ diskEntries \in {<<>>, <<Earlier>>}
    /\ pc = [p \in Procs |-> IF p = FirstOwner THEN "gui" ELSE "idle"]
    /\ command = [p \in Procs |-> "View"]
    /\ result = [p \in Procs |-> IF p = FirstOwner THEN "Ok" ELSE "None"]
    /\ lockRead = [p \in Procs |-> NoLock]
    /\ refusedTime = [p \in Procs |-> 0]
    /\ err = [p \in Procs |-> ""]
    /\ lockfile = [p \in Procs |-> p = FirstOwner]
    /\ entries = [p \in Procs |-> IF p = FirstOwner THEN diskEntries ELSE <<>>]
    /\ listening = {FirstOwner}
    /\ stream = [p \in Procs |-> NoStream]
    /\ handled = {}
    /\ pending = [p \in Procs |-> <<>>]
    /\ GuiOff

\* the first owner keeps running; the other invocations run any subcommand
NewNext ==
    \/ \E p \in Others : StartNew(p)
    \/ \E p \in Others : new_config(p)
    \/ \E p \in Others : new_clear(p)
    \/ \E p \in Others : Start(p)
    \/ \E p \in Others : LockPathExists(p)
    \/ \E p \in Others : ReadLock(p)
    \/ \E p \in Others : Connect(p)
    \/ \E p \in Others : RemoveLock(p)
    \/ \E p \in Others : LockFile_new(p)
    \/ \E p \in Others : from_dir(p)
    \/ \E p \in Others : apply(p)
    \/ \E p \in Others : bind(p)
    \/ \E p \in Others : set_listener(p)
    \/ \E p \in Others : on_locked(p)
    \/ \E p \in Others : Quit(p)
    \/ \E p \in Others : Panic(p)
    \/ \E p \in Others : Kill(p)
    \/ \E o \in Procs, q \in Procs : handle_stream(o, q)
    \/ \E o \in Procs : apply_messages(o)

SpecNew == NewInit /\ [][NewNext]_<<vars, guivars>>



\* ================================================================== claims

\* the lock record the file holds, decoded field by field
IsWithListenerJson(json) == {"hostname", "listener_port"} \subseteq DOMAIN json
IsWithoutListenerJson(json) ==
    ~IsWithListenerJson(json) /\ "time_locked" \in DOMAIN json
Undecodable(json) == ~IsWithListenerJson(json) /\ "time_locked" \notin DOMAIN json

\* invocation p takes its step out of place `at`
Steps(p, at) == pc[p] = at /\ pc'[p] # at

\* C1: at most one invocation at a time is an owner (passed acquisition with
\* Ok, holds its LockFile and has not terminated).
MutualExclusion == Cardinality({p \in Procs : Owner(p)}) <= 1

\* C2: a reader that finds a WithoutListener record at least the grace
\* window old goes on to delete it (and then to own the project).
StaleLockReclaimed ==
    [][\A p \in Procs :
          ( /\ Steps(p, "read_lock")
            /\ lockFile.exists
            /\ IsWithoutListenerJson(lockFile.json)
            /\ now - lockFile.json.time_locked >= SECS_OF_GRACE_FOR_NONLISTENING_LOCK )
          => pc'[p] = "remove_lock"]_vars

\* C9: a reader that saw the lock file exist and finds it gone when it reads
\* does not terminate with an error.
ReaderToleratesMissingLock ==
    \A p \in Procs : err[p] # "Failed to read lock file"

\* C10: an invocation whose delete of the lock file finds it already missing
\* does not fail.
DoubleDeleteIsBenign ==
    \A p \in Procs : err[p] # "Failed to delete lock file"


\* an invocation refused by a fresh lock does nothing else: it holds no
\* LockFile, no stream, and its entry is nowhere
RefusedInert(p) ==
    /\ pc[p] = "panicked"
    /\ err[p] = "Project is locked"
    /\ ~lockfile[p]
    /\ stream[p] = NoStream
    /\ entries[p] = <<>>
    /\ \A i \in DOMAIN diskEntries : diskEntries[i] # p

\* C3: a reader that finds a WithoutListener record younger than the grace
\* window is refused with exactly that time_locked, leaves the lock record and
\* the persisted entries alone, and neither owns the project nor applies its
\* command.
FreshLockRefused ==
    /\ [](\A p \in Procs : result[p] = "WithoutListener" => RefusedInert(p))
    /\ [][\A p \in Procs :
            ( /\ Steps(p, "read_lock")
              /\ lockFile.exists
              /\ IsWithoutListenerJson(lockFile.json)
              /\ now - lockFile.json.time_locked < SECS_OF_GRACE_FOR_NONLISTENING_LOCK )
            => /\ result'[p] = "WithoutListener"
               /\ refusedTime'[p] = lockFile.json.time_locked
               /\ lockFile' = lockFile
               /\ diskEntries' = diskEntries]_vars

\* C3 witness: an invocation was refused by a lock record 10 seconds old,
\* which is still the lock record
FreshLockRefusedWitness ==
    \E p \in Procs :
        /\ result[p] = "WithoutListener"
        /\ now - refusedTime[p] = 10
        /\ lockFile = File([time_locked |-> refusedTime[p]])

\* C4: a reader whose connection to the listener of the lock record
\* succeeds is forwarded; it then writes one insert request on the connection
\* when it is an add (nothing when it is a view), closes it and terminates,
\* without holding a LockFile and without touching the lock record or the
\* persisted entries.
ForwardToLiveOwner ==
    /\ [](\A p \in Procs : result[p] = "WithListener" =>
              /\ ~lockfile[p]
              /\ pc[p] \in {"on_locked", "done", "killed"}
              /\ entries[p] = <<>>)
    /\ [][\A p \in Procs :
            /\ (Steps(p, "connect") /\ stream'[p].to # 0) =>
                  /\ pc'[p] = "on_locked"
                  /\ result'[p] = "WithListener"
                  /\ stream'[p].to = lockRead[p].listener_port
                  /\ stream'[p].to \in listening
                  /\ ~stream'[p].closed
                  /\ UNCHANGED <<lockFile, diskEntries>>
            /\ (Steps(p, "on_locked") /\ pc'[p] = "done") =>
                  /\ stream'[p].data =
                        IF command[p] = "Add" THEN <<InsertRequest(p)>> ELSE <<>>
                  /\ stream'[p].closed
                  /\ UNCHANGED <<lockFile, diskEntries>>]_vars

\* C4 witness: an add was forwarded and has terminated, with its one request
\* on the connection
ForwardToLiveOwnerWitness ==
    \E p \in Procs :
        /\ pc[p] = "done"
        /\ result[p] = "WithListener"
        /\ command[p] = "Add"
        /\ stream[p].data = <<InsertRequest(p)>>
        /\ stream[p].closed

\* C5: a reader of a WithListener record whose connection fails goes on to
\* delete the record; with the record still in place it deletes it and
\* returns Ok, and it then creates WithoutListener{now} and holds the LockFile.
UnreachableListenerReclaimed ==
    [][\A p \in Procs :
          /\ (Steps(p, "connect") /\ stream'[p].to = 0) =>
                /\ pc'[p] = "remove_lock"
                /\ UNCHANGED lockFile
          /\ ( /\ Steps(p, "remove_lock")
               /\ lockRead[p].kind = "WithListener"
               /\ lockFile = File([hostname |-> lockRead[p].hostname,
                                   listener_port |-> lockRead[p].listener_port]) ) =>
                /\ lockFile' = NoFile
                /\ pc'[p] = "LockFile_new"
                /\ result'[p] = "Ok"
          /\ (Steps(p, "LockFile_new") /\ lockRead[p].kind = "WithListener") =>
                /\ lockFile' = File([time_locked |-> now])
                /\ lockfile'[p]
                /\ Owner(p)']_vars

\* C5 witness: an invocation that read a WithListener record and could not
\* connect owns the project under a fresh WithoutListener record
UnreachableListenerReclaimedWitness ==
    \E p \in Procs :
        /\ Owner(p)
        /\ pc[p] = "from_dir"
        /\ lockRead[p].kind = "WithListener"
        /\ lockRead[p].listener_port \notin listening
        /\ lockFile = File([time_locked |-> now])


\* C6: an invocation that finds no lock record returns Ok and creates
\* WithoutListener{now}; loading the project, applying the command and binding
\* the endpoint do not rewrite the record; the record only ever becomes
\* WithListener by the set_listener of an owner, after that owner's bind, and
\* then carries the address that owner bound.
LockLifecycle ==
    [][/\ \A p \in Procs :
            /\ (Steps(p, "get_config") /\ ~lockFile.exists) =>
                  /\ pc'[p] = "LockFile_new"
                  /\ result'[p] = "Ok"
                  /\ UNCHANGED lockFile
            /\ Steps(p, "LockFile_new") =>
                  /\ lockFile' = File([time_locked |-> now])
                  /\ pc'[p] = "from_dir"
            /\ \A at \in {"from_dir", "apply", "bind"} :
                  (Steps(p, at) /\ pc'[p] \in {"apply", "bind", "set_listener"}) =>
                      UNCHANGED lockFile
            /\ Steps(p, "bind") => pc'[p] \in {"set_listener", "panicked", "killed"}
       /\ ( /\ lockFile' # lockFile
            /\ lockFile'.exists
            /\ IsWithListenerJson(lockFile'.json) ) =>
               \E o \in Procs :
                  /\ pc[o] = "set_listener"
                  /\ pc'[o] = "gui"
                  /\ Owner(o)
                  /\ o \in listening
                  /\ lockFile'.json = [hostname |-> LOCALHOST, listener_port |-> o]]_vars

\* C6 witness: an owner is in its loop behind the WithListener record that
\* carries the port it bound
LockLifecycleWitness ==
    \E o \in Procs :
        /\ pc[o] = "gui"
        /\ Owner(o)
        /\ o \in listening
        /\ lockFile = File([hostname |-> LOCALHOST, listener_port |-> o])

\* C7: when an owner terminates by the quit key, by returning after a
\* --exit command or by a panic, the lock file does not exist afterwards.
ReleaseOnEveryExit ==
    [][\A p \in Procs :
          (Owner(p) /\ pc'[p] \in {"done", "panicked"}) => ~lockFile'.exists]_vars

\* C7 witness: one owner has returned, another has panicked, and there is no
\* lock file
ReleaseOnEveryExitWitness ==
    \E p \in Procs, q \in Procs :
        /\ pc[p] = "done" /\ result[p] = "Ok"
        /\ pc[q] = "panicked" /\ result[q] = "Ok" /\ err[q] = "Failed"
        /\ ~lockFile.exists

\* C8: a reader of a lock record that decodes as neither variant panics:
\* get_config returns nothing, the lock record stays as it is, and the
\* invocation neither loads nor mutates the project.
MalformedLockIsFatal ==
    /\ [](\A p \in Procs : err[p] = "failed to read lock file" =>
              /\ pc[p] = "panicked"
              /\ result[p] = "None"
              /\ ~lockfile[p]
              /\ entries[p] = <<>>
              /\ stream[p] = NoStream)
    /\ [][\A p \in Procs :
            ( /\ Steps(p, "read_lock")
              /\ lockFile.exists
              /\ Undecodable(lockFile.json) )
            => /\ pc'[p] = "panicked"
               /\ err'[p] = "failed to read lock file"
               /\ result'[p] = "None"
               /\ UNCHANGED <<lockFile, diskEntries>>]_vars

\* C8 witness: an invocation has panicked on the undecodable lock record,
\* which is still there
MalformedLockIsFatalWitness ==
    \E p \in Procs :
        /\ err[p] = "failed to read lock file"
        /\ lockFile.exists
        /\ Undecodable(lockFile.json)


\* ------------------------------------------- claims of the interactive loop

\* a selection state that points into the lists of the project
SelectStateValid(state, proj) ==
    CASE state.kind = "Entry" ->
             IF proj.entries = <<>> THEN state.idx = 0
             ELSE state.idx < Len(proj.entries)
      [] state.kind = "Archive" -> state.idx < Len(proj.archive)
      [] state.kind = "Drag" ->
             /\ state.dragged_entry_idx < Len(proj.entries)
             /\ state.new_position < Len(proj.entries)

\* the loop waits for an event on a frame it drew
Polling == loop_pc = "poll"

\* what on_event leaves for a key press without modifiers
OnPress(code) == on_event(select_state, Press(code), project, NoClipboard)

\* C11: from Entry(0) on, after any local events and drained remote inserts,
\* the selection state is Entry(i) with i = 0 on an empty list and
\* i < entries.len() otherwise, Archive(i) with i < archive.len(), or Drag
\* with both indices < entries.len().
SelectionValidity ==
    loop_pc # "off" => SelectStateValid(select_state, project)

\* the call panics, in every build or in the one that checks overflow
Fails(outcome) == outcome.panic \/ outcome.overflow

\* the event changed nothing: no panic, the project as it was, no save, and
\* the selection state kept
Unchanged_(outcome) ==
    /\ ~Fails(outcome)
    /\ outcome.project = project
    /\ ~outcome.on_event.save
    /\ \/ outcome.on_event.next_state.tag = "None"
       \/ outcome.on_event.next_state = [tag |-> "State", state |-> select_state]

\* the event moved the selection to the state and did nothing else
MovedTo(outcome, state) ==
    outcome = Returns(OnEvent_without_saving(state), project)

\* C12: in Entry(i), Up yields Entry(i-1) when i > 0, Down yields Entry(i+1)
\* when i < entries.len()-1, Home yields Entry(0), End yields
\* Entry(entries.len()-1) on a non-empty list; in every other case the state
\* is unchanged; no navigation key mutates the project or asks for a save.
EntryNavigation ==
    (Polling /\ select_state.kind = "Entry") =>
        LET i == select_state.idx
            len == Len(project.entries)
        IN  /\ IF i > 0 THEN MovedTo(OnPress("Up"), EntryState(i - 1))
               ELSE Unchanged_(OnPress("Up"))
            /\ IF len > 0 /\ i < len - 1
               THEN MovedTo(OnPress("Down"), EntryState(i + 1))
               ELSE Unchanged_(OnPress("Down"))
            /\ MovedTo(OnPress("Home"), EntryState(0))
            /\ IF len > 0 THEN MovedTo(OnPress("End"), EntryState(len - 1))
               ELSE Unchanged_(OnPress("End"))
            /\ len = 0 => \A code \in {"Up", "Down", "Home", "End"} :
                              Unchanged_(OnPress(code))

\* the selection went down to the last of several entries, where Down is
\* ignored and Up moves
EntryNavigationWitness ==
    /\ Polling
    /\ select_state.kind = "Entry"
    /\ Len(project.entries) >= 2
    /\ select_state.idx = Len(project.entries) - 1
    /\ OnPress("Down").on_event = OnEvent_ignore
    /\ OnPress("Up").on_event.next_state.state = EntryState(select_state.idx - 1)

\* C13: in Archive(i), whatever the active list holds, Up, Down, Home and
\* End yield an Archive index < archive.len() (Home 0, End archive.len()-1,
\* Up and Down one step inside the bounds and nothing at the boundaries),
\* never fail and never mutate the project.
ArchiveNavigation ==
    (Polling /\ select_state.kind = "Archive") =>
        LET i == select_state.idx
            len == Len(project.archive)
        IN  /\ IF i > 0 THEN MovedTo(OnPress("Up"), ArchiveState(i - 1))
               ELSE Unchanged_(OnPress("Up"))
            /\ IF i < len - 1 THEN MovedTo(OnPress("Down"), ArchiveState(i + 1))
               ELSE Unchanged_(OnPress("Down"))
            /\ MovedTo(OnPress("Home"), ArchiveState(0))
            /\ MovedTo(OnPress("End"), ArchiveState(len - 1))

\* the list without its element at index i (from 0), the others in order
Without(v, i) ==
    [k \in 1..(Len(v) - 1) |-> IF k <= i THEN v[k] ELSE v[k + 1]]

\* the list without its last element
ButLast(v) == [k \in 1..(Len(v) - 1) |-> v[k]]

\* Delete in an Entry state on a non-empty list is archive_entry of the
\* selected index, saved
DeleteArchives ==
    (Polling /\ select_state.kind = "Entry" /\ project.entries # <<>>) =>
        /\ ~Fails(OnPress("Delete"))
        /\ OnPress("Delete").project = archive_entry(project, select_state.idx)
        /\ OnPress("Delete").on_event.save

\* C14 as stated: archiving index i removes exactly that entry from entries,
\* the entry becomes archive[0], and archive.len() grows by 1 unless the
\* archive was at max_archive, where the length is unchanged and the former
\* last archived entry is the one evicted.
ArchiveEntryAsStated ==
    /\ DeleteArchives
    /\ Polling => \A i \in 0..(Len(project.entries) - 1) :
         LET entry == project.entries[i + 1]
             archived == archive_entry(project, i)
         IN  /\ archived.entries = Without(project.entries, i)
             /\ archived.archive # <<>>
             /\ archived.archive[1] = entry
             /\ IF Len(project.archive) >= project.max_archive
                THEN /\ Len(archived.archive) = Len(project.archive)
                     /\ archived.archive = <<entry>> \o ButLast(project.archive)
                ELSE Len(archived.archive) = Len(project.archive) + 1

\* C14, amended: archiving index i removes exactly that entry from entries
\* and puts it at the head of the archive; when the archive then is longer
\* than max_archive its last element is dropped, so the length grows by 1
\* only below max_archive and is unchanged otherwise, and the entry is
\* archive[0] unless max_archive is 0 and the archive was empty, where the
\* archived entry itself is the one dropped.
ArchiveEntry ==
    /\ DeleteArchives
    /\ Polling => \A i \in 0..(Len(project.entries) - 1) :
         LET entry == project.entries[i + 1]
             archived == archive_entry(project, i)
             grown == <<entry>> \o project.archive
         IN  /\ archived.entries = Without(project.entries, i)
             /\ archived.max_archive = project.max_archive
             /\ archived.archive = IF Len(grown) > project.max_archive
                                   THEN ButLast(grown) ELSE grown
             /\ Len(archived.archive) =
                    IF Len(project.archive) < project.max_archive
                    THEN Len(project.archive) + 1 ELSE Len(project.archive)
             /\ (project.max_archive > 0 \/ project.archive # <<>>) =>
                    archived.archive[1] = entry
             /\ (project.max_archive = 0 /\ project.archive = <<>>) =>
                    archived.archive = <<>>

\* Delete on the second of several entries with the archive full: the entry
\* heads the archive and the oldest archived entry is gone
ArchiveEntryWitness ==
    /\ Polling
    /\ select_state = EntryState(1)
    /\ Len(project.entries) >= 2
    /\ project.max_archive >= 1
    /\ Len(project.archive) = project.max_archive
    /\ OnPress("Delete").project.archive[1] = project.entries[2]
    /\ project.archive[Len(project.archive)]
           \notin {OnPress("Delete").project.archive[k] :
                       k \in 1..Len(OnPress("Delete").project.archive)}

\* C15: in every state of a project reachable by insert, archive, restore,
\* remove and move, archive.len() <= max_archive, for every max_archive, 0
\* and a bound smaller than the loaded archive included.
ArchiveBound ==
    loop_pc # "off" => Len(project.archive) <= project.max_archive

\* the entries a list holds, and those a project holds in its two lists
Elems(v) == {v[k] : k \in 1..Len(v)}
Held(proj) == Elems(proj.entries) \cup Elems(proj.archive)

\* every entry of the project is in one list only and once in it
NoDuplicates(proj) ==
    Cardinality(Held(proj)) = Len(proj.entries) + Len(proj.archive)

\* C16: no entry is in both lists or twice in one; move, restore and archive
\* below the bound leave the set entries + archive as it is; an entry leaves
\* the project only by eviction from the tail of the archive at the bound
\* and by Delete in the archive (and enters it only by an insert).
EntryConservation ==
    /\ loop_pc # "off" => NoDuplicates(project)
    /\ Polling =>
         \A event \in Events : \A clipboard \in ClipboardsFor(event) :
           LET outcome == on_event(select_state, event, project, clipboard)
               lost == Held(project) \ Held(outcome.project)
               new == Held(outcome.project) \ Held(project)
               grown == <<project.entries[select_state.idx + 1]>>
                            \o project.archive
           IN  ~outcome.panic =>
                 /\ NoDuplicates(outcome.project)
                 /\ new # {} =>
                        /\ IsPaste(event) /\ select_state.kind = "Entry"
                        /\ new = {Entry(clipboard.contents, now)}
                 /\ lost # {} =>
                        \/ /\ select_state.kind = "Archive"
                           /\ event = Press("Delete")
                           /\ lost = {project.archive[select_state.idx + 1]}
                        \/ /\ select_state.kind = "Entry"
                           /\ event = Press("Delete")
                           /\ Len(project.archive) >= project.max_archive
                           /\ lost = {grown[Len(grown)]}
                 /\ (select_state.kind = "Drag" /\ event = Press("Enter")) =>
                        Held(outcome.project) = Held(project)
                 /\ (select_state.kind = "Archive" /\ event = Press("r")) =>
                        Held(outcome.project) = Held(project)
                 /\ (/\ select_state.kind = "Entry"
                     /\ event = Press("Delete")
                     /\ Len(project.archive) < project.max_archive) =>
                        Held(outcome.project) = Held(project)

\* the first loaded entry was archived and the two others changed places:
\* archive and move (or restore) have acted, and all three are still held
EntryConservationWitness ==
    /\ Polling
    /\ project.entries = <<Entry(3, Loaded), Entry(2, Loaded)>>
    /\ project.archive = <<Entry(1, Loaded)>>

\* C17: restoring archive index j removes exactly that entry from the
\* archive, inserts it at active index 0 and refocuses to Entry(0), saved;
\* an entry archived, restored and archived again is the same entry (name,
\* link, metadata, time_added) wherever the archive keeps it, which it does
\* for every max_archive > 0; below the bound, archive then restore of
\* index i gives the same active entries with that entry at the head.
RestoreRoundTrip ==
    /\ Polling => \A j \in 0..(Len(project.archive) - 1) :
         LET restored == restore_from_archive(project, j)
         IN  /\ restored.archive = Without(project.archive, j)
             /\ restored.entries = <<project.archive[j + 1]>> \o project.entries
             /\ restored.max_archive = project.max_archive
    /\ (Polling /\ select_state.kind = "Archive") =>
         OnPress("r") =
             Returns(OnEvent_with_saving(EntryState(0)),
                     restore_from_archive(project, select_state.idx))
    /\ Polling => \A i \in 0..(Len(project.entries) - 1) :
         LET entry == project.entries[i + 1]
             archived == archive_entry(project, i)
             restored == restore_from_archive(archived, 0)
             again == archive_entry(restored, 0)
         IN  /\ (project.max_archive > 0 \/ project.archive # <<>>) =>
                    /\ archived.archive[1] = entry
                    /\ restored.entries[1] = entry
                    /\ again.archive # <<>> => again.archive[1] = entry
                    /\ again.entries = archived.entries
             /\ project.max_archive > 0 =>
                    /\ again.archive # <<>>
                    /\ again.archive[1] = entry
             /\ Len(project.archive) < project.max_archive =>
                    /\ restored.entries = <<entry>> \o Without(project.entries, i)
                    /\ Elems(restored.entries) = Elems(project.entries)
                    /\ restored.archive = project.archive

\* 'r' on the second of several archived entries while active entries exist
RestoreRoundTripWitness ==
    /\ Polling
    /\ select_state = ArchiveState(1)
    /\ Len(project.archive) >= 2
    /\ project.entries # <<>>
    /\ OnPress("r").project.entries[1] = project.archive[2]
    /\ OnPress("r").on_event.next_state.state = EntryState(0)

\* C18: Enter in Drag{from, to} leaves the list unchanged when from = to;
\* when from # to the entry that was at from ends at index to and the other
\* entries keep their relative order; in both cases the state becomes
\* Entry(to), the project is saved and the list keeps its length.
DragCommit ==
    (Polling /\ select_state.kind = "Drag") =>
        LET from == select_state.dragged_entry_idx
            to == select_state.new_position
            outcome == OnPress("Enter")
            moved == outcome.project.entries
        IN  /\ ~Fails(outcome)
            /\ outcome.on_event = OnEvent_with_saving(EntryState(to))
            /\ outcome.project.archive = project.archive
            /\ Len(moved) = Len(project.entries)
            /\ from = to => moved = project.entries
            /\ moved[to + 1] = project.entries[from + 1]
            /\ Without(moved, to) = Without(project.entries, from)

\* Enter while the first of three entries is dragged to the last position
DragCommitWitness ==
    /\ Polling
    /\ select_state = DragState(0, 2)
    /\ Len(project.entries) = 3
    /\ OnPress("Enter").project.entries =
           <<project.entries[2], project.entries[3], project.entries[1]>>

\* C19: in Drag mode Up, Down, Home and End leave entries, archive and
\* dragged_entry_idx unchanged and ask for no save; new_position moves by
\* one within 0..entries.len()-1, stays at the boundaries, or jumps to 0 or
\* entries.len()-1.
DragPreview ==
    (Polling /\ select_state.kind = "Drag") =>
        LET dragged == select_state.dragged_entry_idx
            pos == select_state.new_position
            len == Len(project.entries)
        IN  /\ IF pos > 0 THEN MovedTo(OnPress("Up"), DragState(dragged, pos - 1))
               ELSE Unchanged_(OnPress("Up"))
            /\ IF pos < len - 1
               THEN MovedTo(OnPress("Down"), DragState(dragged, pos + 1))
               ELSE Unchanged_(OnPress("Down"))
            /\ MovedTo(OnPress("Home"), DragState(dragged, 0))
            /\ MovedTo(OnPress("End"), DragState(dragged, len - 1))

\* a drag of the first of several entries previewed at the last position,
\* where Down is ignored and Home jumps back
DragPreviewWitness ==
    /\ Polling
    /\ select_state.kind = "Drag"
    /\ select_state.dragged_entry_idx = 0
    /\ Len(project.entries) >= 2
    /\ select_state.new_position = Len(project.entries) - 1
    /\ OnPress("Down").on_event = OnEvent_ignore
    /\ OnPress("Home").on_event.next_state.state = DragState(0, 0)

\* C20: Escape in Drag{dragged_entry_idx, new_position} yields
\* Entry(dragged_entry_idx) for every new_position, leaves entries and
\* archive as they were and asks for no save.
DragCancel ==
    (Polling /\ select_state.kind = "Drag") =>
        MovedTo(OnPress("Esc"), EntryState(select_state.dragged_entry_idx))

\* Escape while the dragged entry is previewed away from its place
DragCancelWitness ==
    /\ Polling
    /\ select_state.kind = "Drag"
    /\ select_state.new_position # select_state.dragged_entry_idx
    /\ OnPress("Esc").on_event.next_state.state =
           EntryState(select_state.dragged_entry_idx)
    /\ OnPress("Esc").project = project

\* C21: with entries non-empty, Delete in Entry(i) archives the entry at i
\* and asks for a save; the focus is Entry(i) when i is still an index of
\* the list (or the list became empty and i = 0), else Entry of the new
\* last index; with entries empty Delete changes neither project nor state.
EntryDelete ==
    (Polling /\ select_state.kind = "Entry") =>
        LET i == select_state.idx
            len == Len(project.entries)
            outcome == OnPress("Delete")
            focus == IF i < len - 1 THEN i
                     ELSE IF len = 1 THEN 0
                     ELSE len - 2
        IN  IF len = 0 THEN Unchanged_(outcome)
            ELSE /\ ~Fails(outcome)
                 /\ outcome.project = archive_entry(project, i)
                 /\ outcome.project.entries = Without(project.entries, i)
                 /\ outcome.on_event = OnEvent_with_saving(EntryState(focus))
                 /\ SelectStateValid(EntryState(focus), outcome.project)

\* Delete on the last of several entries: the focus moves to the new last
EntryDeleteWitness ==
    /\ Polling
    /\ select_state.kind = "Entry"
    /\ Len(project.entries) >= 2
    /\ select_state.idx = Len(project.entries) - 1
    /\ OnPress("Delete").on_event.next_state.state
           = EntryState(select_state.idx - 1)
    /\ OnPress("Delete").on_event.save

\* C22: from Entry(i) the archive key enters Archive(0) only if the archive
\* is non-empty, the drag key enters Drag{i, i} only if entries is
\* non-empty; otherwise the state is unchanged; neither mutates the project
\* or asks for a save.  So no Archive or Drag state is over an empty list.
ModeSwitchGuards ==
    /\ (Polling /\ select_state.kind = "Entry") =>
         LET i == select_state.idx
         IN  /\ IF project.archive # <<>>
                THEN MovedTo(OnPress("a"), ArchiveState(0))
                ELSE Unchanged_(OnPress("a"))
             /\ IF project.entries # <<>>
                THEN MovedTo(OnPress("d"), DragState(i, i))
                ELSE Unchanged_(OnPress("d"))
    /\ (loop_pc # "off" /\ select_state.kind = "Archive") =>
         project.archive # <<>>
    /\ (loop_pc # "off" /\ select_state.kind = "Drag") =>
         project.entries # <<>>

\* the archive key pressed on an empty active list with an archive to show,
\* where the drag key is ignored
ModeSwitchGuardsWitness ==
    /\ Polling
    /\ select_state = EntryState(0)
    /\ project.entries = <<>>
    /\ project.archive # <<>>
    /\ OnPress("a").on_event.next_state.state = ArchiveState(0)
    /\ OnPress("d").on_event = OnEvent_ignore

\* selection states of every kind, with indices in and out of the lists
AnyIndex == 0..MaxEntries \cup {USIZE_MAX}
AnySelectState ==
    {EntryState(i) : i \in AnyIndex} \cup {ArchiveState(i) : i \in AnyIndex}
        \cup {DragState(i, j) : i \in AnyIndex, j \in AnyIndex}

\* C23: in every selection state, whatever the indices and the project, the
\* quit key gives the Exit signal without running the arm of the state and
\* without touching the project; the loop ends on that event and leaves the
\* selection state as it was.
GlobalQuit ==
    /\ [](loop_pc # "off" =>
            \A self \in AnySelectState : \A event \in Events :
              event.code = "q" =>
                on_event(self, event, project, NoClipboard)
                    = Returns(OnEvent_exit, project))
    /\ [][/\ loop_pc # "exit"
          /\ loop_pc' = "exit" =>
               /\ loop_pc = "poll"
               /\ UNCHANGED <<project, select_state, saved, pending_messages>>
         ]_<<vars, guivars>>

\* the loop ended by a quit pressed in the middle of a drag
GlobalQuitWitness ==
    /\ loop_pc = "exit"
    /\ select_state.kind = "Drag"
    /\ select_state.new_position # select_state.dragged_entry_idx

\* the paste key, and what on_event leaves for it with a clipboard
PasteKey == KeyEvent("v", "CONTROL", "Press")
OnPaste(clipboard) == on_event(select_state, PasteKey, project, clipboard)

ArchiveDelete ==
    (Polling /\ select_state.kind = "Archive") =>
        LET i == select_state.idx
            len == Len(project.archive)
            outcome == OnPress("Delete")
            focus == IF len = 1 THEN EntryState(0)
                     ELSE IF i = len - 1 THEN ArchiveState(i - 1)
                     ELSE ArchiveState(i)
        IN  /\ ~Fails(outcome)
            /\ outcome.on_event = OnEvent_with_saving(focus)
            /\ outcome.project.archive = Without(project.archive, i)
            /\ outcome.project.entries = project.entries
            /\ project.archive[i + 1] \notin Held(outcome.project)
            /\ SelectStateValid(focus, outcome.project)

\* Delete on the last of several archived entries
ArchiveDeleteWitness ==
    /\ Polling
    /\ select_state.kind = "Archive"
    /\ Len(project.archive) >= 2
    /\ select_state.idx = Len(project.archive) - 1
    /\ OnPress("Delete").on_event.next_state.state
           = ArchiveState(select_state.idx - 1)
    /\ Len(OnPress("Delete").project.archive) = Len(project.archive) - 1

\* ------------------------------------------------ the remote-command queue
\* the names of a list of requests or entries, in its order
RECURSIVE NamesIn(_)
NamesIn(v) == IF v = <<>> THEN <<>> ELSE <<Head(v).name>> \o NamesIn(Tail(v))

\* how many times the request of connection i is in the queue or the project
TimesQueued(i) ==
    Cardinality({k \in DOMAIN pending_messages : pending_messages[k].name = i})
TimesApplied(i) ==
    Cardinality({k \in DOMAIN project.entries : project.entries[k].name = i})

\* the connections whose handler has run
Handled == {i \in DOMAIN connections : connections[i].at # "written"}

\* C26: a handler that ran on an empty payload, on {} or on bytes that are
\* not JSON, text or not, has returned without a panic and put nothing in
\* the queue or the project; a handler that ran on the JSON of an insert
\* request has returned and queued that request once.
BadPayloadsDropped ==
    \A i \in Handled :
        /\ connections[i].at = "returned"
        /\ IF connections[i].payload.kind = "Insert"
           THEN TimesQueued(i) + TimesApplied(i) = 1
           ELSE TimesQueued(i) + TimesApplied(i) = 0

Reverse(v) == [k \in 1..Len(v) |-> v[Len(v) + 1 - k]]

\* the step of run_app that drains the queue, and a push of a handler
DrainStep == loop_pc = "apply_messages" /\ loop_pc' # loop_pc
PushStep == loop_pc' = loop_pc /\ pending_messages' # pending_messages

\* C27: with the handlers pushing in any order and the loop the only
\* consumer, the request of a connection is never in the queue and the
\* project together more than once; a push appends at the tail of the
\* queue; a drain applies the queued requests in queue order, each at the
\* head of the entries, and leaves the queue empty.
QueueFifoOnce ==
    /\ [](\A i \in DOMAIN connections : TimesQueued(i) + TimesApplied(i) <= 1)
    /\ [][/\ PushStep =>
              /\ Len(pending_messages') = Len(pending_messages) + 1
              /\ SubSeq(pending_messages', 1, Len(pending_messages))
                     = pending_messages
          /\ DrainStep =>
              /\ NamesIn(project'.entries)
                     = Reverse(NamesIn(pending_messages))
                           \o NamesIn(project.entries)
              /\ pending_messages' = <<>>
          /\ ~DrainStep => project' = project]_<<vars, guivars>>

\* the handler of the second connection pushed before the handler of the
\* first, both requests were drained in one tick and are applied once
QueueFifoOnceWitness ==
    /\ Len(connections) >= 2
    /\ connections[2].order = 1
    /\ connections[1].order = 2
    /\ pending_messages = <<>>
    /\ NamesIn(project.entries) = <<1, 2>>
    /\ loop_pc = "poll"

\* a step in which the loop handled a local input event that had an effect
LocalEventStep ==
    \/ select_state' # select_state
    \/ loop_pc' = "exit"
    \/ loop_pc = "poll" /\ project' # project

\* C28 as stated: at the instant a local input event is processed the queue
\* holds no pending command.
QueueEmptyAtEvent ==
    [][LocalEventStep => pending_messages = <<>>]_<<vars, guivars>>

\* C28: a local input event is handled only while the loop polls; the loop
\* starts to poll only out of a drain that took every queued command,
\* applied it to the entries and left the queue empty; while it polls the
\* queue only grows at its tail and the project is only changed by the
\* event.  So every command queued before the tick's drain is applied before
\* the tick's event, and a command in the queue at the event was pushed
\* after that drain and waits for the next one.
DrainedBeforeEvent ==
    [][/\ LocalEventStep => loop_pc = "poll"
       /\ (loop_pc # "poll" /\ loop_pc' = "poll") =>
              /\ loop_pc = "apply_messages"
              /\ pending_messages' = <<>>
              /\ NamesOf(pending_messages) \subseteq NamesOf(project'.entries)
       /\ (loop_pc = "poll" /\ loop_pc' = "poll") =>
              /\ project' = project
              /\ SubSeq(pending_messages', 1, Len(pending_messages))
                     = pending_messages
       /\ (loop_pc = "poll" /\ loop_pc' # "poll") =>
              pending_messages' = pending_messages]_<<vars, guivars>>

\* the loop polls with an entry at the head that was added while it ran,
\* and a handler has pushed a command since the drain of this tick
DrainedBeforeEventWitness ==
    /\ loop_pc = "poll"
    /\ pending_messages # <<>>
    /\ project.entries # <<>>
    /\ project.entries[1].time_added = now

\* every connection so far carried an insert request and every request is
\* applied
AllAddsApplied ==
    \A i \in DOMAIN connections :
        connections[i].payload.kind = "Insert" /\ TimesApplied(i) = 1

\* the names n, n-1, .., 1
Descending(n) == [k \in 1..n |-> n + 1 - k]

\* the place of the handler of the request named n among the pushes
PushOrder(n) == connections[n].order

\* C29 as stated: adds sent one after another, each sender closing before
\* the next starts, are in the entries in the reverse of the order they were
\* sent once all are applied, however the handler threads were scheduled.
SequentialAddsReversed ==
    AllAddsApplied => NamesIn(project.entries) = Descending(Len(connections))

\* C29: the entries are in the reverse of the order in which the handlers
\* pushed, the last pushed at index 0; the queue is in the order of the
\* pushes and holds later pushes than the entries; so adds sent one after
\* another are in the reverse of the order they were sent once all are
\* applied, if their handlers pushed in that order.
RemoteInsertsByPushOrder ==
    /\ \A j, k \in DOMAIN project.entries :
           j < k => PushOrder(project.entries[j].name)
                        > PushOrder(project.entries[k].name)
    /\ \A j, k \in DOMAIN pending_messages :
           j < k => PushOrder(pending_messages[j].name)
                        < PushOrder(pending_messages[k].name)
    /\ \A j \in DOMAIN project.entries, k \in DOMAIN pending_messages :
           PushOrder(project.entries[j].name)
               < PushOrder(pending_messages[k].name)
    /\ (AllAddsApplied /\ \A i \in DOMAIN connections : PushOrder(i) = i)
           => NamesIn(project.entries) = Descending(Len(connections))

\* three adds whose handlers pushed in the order they were sent, all applied
RemoteInsertsByPushOrderWitness ==
    /\ Len(connections) = 3
    /\ AllAddsApplied
    /\ \A i \in DOMAIN connections : PushOrder(i) = i
    /\ NamesIn(project.entries) = <<3, 2, 1>>

\* ------------------------------------------------------------ persistence
\* C30: at the start of every tick, while the loop polls and at its exit the
\* files hold the entries and the archive of the project in memory: a drain
\* that applied a command and an event that mutated the project saved in
\* their own step; an event that leaves the project as it was asks for no
\* save, unless it is the commit of a drag.
PersistenceFollowsMutation ==
    /\ loop_pc \in {"apply_messages", "poll", "exit"} => saved = save(project)
    /\ Polling =>
           \A event \in Events : \A clipboard \in ClipboardsFor(event) :
               LET outcome == on_event(select_state, event, project, clipboard)
               IN  ~outcome.panic =>
                       /\ outcome.project # project => outcome.on_event.save
                       /\ (outcome.on_event.save /\ outcome.project = project)
                              => /\ select_state.kind = "Drag"
                                 /\ event.code = "Enter"

\* the loop has exited with an entry added while it ran, and the files hold
\* the project
PersistenceFollowsMutationWitness ==
    /\ loop_pc = "exit"
    /\ \E k \in DOMAIN project.entries : project.entries[k].time_added = now
    /\ saved = save(project)
    /\ saved.entries # <<>>

\* ------------------------------------------------- claims of the add paths
\* how many times the entry of invocation p is in the list es
TimesIn(p, es) == Cardinality({i \in DOMAIN es : es[i] = p})

\* the names of the queued requests, the last one first
RECURSIVE RequestsReversed(_)
RequestsReversed(messages) ==
    IF messages = <<>> THEN <<>>
    ELSE RequestsReversed(Tail(messages)) \o <<Head(messages).name>>

\* an add that applied its command itself and has returned
AddedDirectly(p) ==
    command[p] = "Add" /\ result[p] = "Ok" /\ pc[p] = "done"

\* an add that was forwarded, whose request the handler of the owner has
\* read and no queue holds any more
AddedByOwner(p) ==
    /\ command[p] = "Add" /\ result[p] = "WithListener" /\ pc[p] = "done"
    /\ p \in handled
    /\ \A o \in Procs : TimesIn(p, RequestsReversed(pending[o])) = 0

\* C31 as stated: an add that was not refused has taken effect exactly once:
\* its entry is once in the persisted entries, be it applied by the
\* invocation itself or forwarded to the running instance.
AddTakesEffectOnce ==
    \A p \in Procs :
        (AddedDirectly(p) \/ AddedByOwner(p)) => TimesIn(p, diskEntries) = 1

\* ------------------------------------------------ claims of the lock frame
\* the acquisition of invocation p ended with its connection to the
\* listener established (Forwarded), or with the refusal of a fresh lock
Forwarded(p) == stream[p].to # 0
Refused(p) == result[p] = "WithoutListener"

\* C32: an invocation whose acquisition ends in Forwarded or Refused never
\* holds a LockFile, and none of its steps, from the test of the lock file to
\* its termination, creates, rewrites or deletes the lock record: the record
\* each step finds is the record it leaves.
NonOwnersLeaveLock ==
    /\ [](\A p \in Procs : (Forwarded(p) \/ Refused(p)) => ~lockfile[p])
    /\ [][\A p \in Procs :
            /\ (pc'[p] # pc[p] /\ (Forwarded(p)' \/ Refused(p)')) =>
                   lockFile' = lockFile
            /\ (Steps(p, "get_config") /\ pc'[p] = "read_lock") =>
                   lockFile' = lockFile
            /\ (Steps(p, "read_lock") /\ pc'[p] = "connect") =>
                   lockFile' = lockFile]_vars

\* a forwarded invocation has terminated and the record of the owner it
\* connected to, still in its loop, is in place
NonOwnersLeaveLockWitness ==
    \E p \in Procs :
        /\ Forwarded(p)
        /\ pc[p] = "done"
        /\ pc[stream[p].to] = "gui"
        /\ lockFile = File([hostname |-> LOCALHOST,
                            listener_port |-> stream[p].to])

\* invocation p could not connect to the listener of o and is about to
\* delete the record of o
ConnectFailed(p, o) ==
    /\ pc[p] = "remove_lock"
    /\ lockRead[p] = WithListener(LOCALHOST, o)

\* instance o runs its loop with its listener bound and reached by every
\* connection attempt, behind the lock record that names its listener
LiveOwnerBehindItsLock(o) ==
    /\ pc[o] = "gui"
    /\ o \in listening
    /\ lockfile[o]
    /\ lockFile = File([hostname |-> LOCALHOST, listener_port |-> o])
    /\ \A p \in Procs : ~ConnectFailed(p, o)

\* C33: while an instance runs its loop with a reachable listener, no step
\* of another invocation, whatever its subcommand and flags, overwrites or
\* deletes the lock record of that instance.
LiveOwnerLockKept ==
    [][\A o \in Procs :
          (LiveOwnerBehindItsLock(o) /\ pc'[o] = "gui") =>
              lockFile' = lockFile]_vars

\* invocation b could not connect to the listener of a, deleted the record
\* of a and holds the LockFile of the record it wrote in its place
Reclaimed(b, a) ==
    /\ lockRead[b] = WithListener(LOCALHOST, a)
    /\ lockfile[b]
    /\ Live(b)

\* C34: when the record of an instance a was reclaimed by an invocation b
\* whose connection attempt failed while a was running, the termination of a
\* neither deletes nor alters the lock record, which is the record of b.
ReleaseOnlyOwnRecord ==
    [][\A a \in Procs, b \in Procs :
          ( /\ a # b
            /\ pc[a] = "gui"
            /\ lockfile[a]
            /\ pc'[a] \in {"done", "panicked"}
            /\ Reclaimed(b, a)
            /\ lockFile.exists )
          => lockFile' = lockFile]_vars

\* ------------------------------------------- claims of drag under inserts
\* C35: when a tick drains the queue while the state is Drag, the entry that
\* the drag holds stays the entry it held before the drain: Enter after the
\* drain moves that entry to new_position and focuses it, Escape after the
\* drain focuses that entry.
DragTracksEntry ==
    [][( /\ select_state.kind = "Drag"
         /\ select_state.dragged_entry_idx < Len(project.entries)
         /\ loop_pc = "apply_messages"
         /\ loop_pc' = "poll" ) =>
           LET dragged == project.entries[select_state.dragged_entry_idx + 1]
               committed == on_event(select_state', Press("Enter"), project',
                                     NoClipboard)
               cancelled == on_event(select_state', Press("Esc"), project',
                                     NoClipboard)
               focus == cancelled.on_event.next_state.state
           IN  /\ ~Fails(committed)
               /\ committed.on_event.next_state.state
                      = EntryState(select_state'.new_position)
               /\ committed.project.entries[select_state'.new_position + 1]
                      = dragged
               /\ ~Fails(cancelled)
               /\ focus.kind = "Entry"
               /\ project'.entries[focus.idx + 1] = dragged]_<<vars, guivars>>

====
